---- MODULE Spec2Model ----
(***************************************************************************)
(* PrecisionVoice: the alignment service (speaker assignment, segment      *)
(* reconstruction, output formatting), the pipeline orchestrator that runs *)
(* transcription and diarization concurrently and sequences alignment and  *)
(* output, and the /api/transcribe handler in front of it.                 *)
(*                                                                         *)
(* Times are whole seconds 0..MaxTime.  A word's center (start+end)/2 may  *)
(* be a half second, so center times are carried doubled: a center c is    *)
(* the integer 2*c, and a segment bound b is compared to it as 2*b.  The   *)
(* timestamp formatters alone take times with a fraction, given as whole   *)
(* seconds and thousandths.                                                *)
(***************************************************************************)
EXTENDS Integers, Sequences, FiniteSets, TLC

\* ---------------------------------------------------------------- bounds
\* Times of the aligner's inputs are 0..MaxTime; a call of the aligner has at
\* most MaxItems words and speaker segments together.
MaxTime == 2
MaxItems == 3
\* The engines of a pipeline run return at most PipeWords words and PipeSegs
\* speaker turns, with times 0..PipeTime.
PipeTime == 1
PipeWords == 2
PipeSegs == 2
\* Times given to the timestamp formatters have at most MaxHours whole hours.
MaxHours == 1
\* At most MaxCallers worker threads call a service's lazy loader at once.
MaxCallers == 3

\* ------------------------------------------------------------- constants
PAUSE_THRESHOLD == 1

Texts == {"a", "b"}
Labels == {"A", "B"}

\* Settings.max_upload_size_mb and Settings.allowed_extensions.
max_upload_size_mb == 100

ALLOWED_EXTENSIONS == {"mp3", "wav", "m4a", "ogg", "flac", "webm"}

NoSpeaker == "<None>"
UNKNOWN == "Unknown"
FALLBACK_SPEAKER == "Speaker 1"

\* ------------------------------------------------------------ data types
SeqsUpTo(S, n) == UNION {[1..k -> S] : k \in 0..n}

WordTimestamp(T) ==
    {w \in [word : Texts, start : 0..T, end : 0..T] : w.start <= w.end}

SpeakerSegment(T, L) ==
    {s \in [start : 0..T, end : 0..T, speaker : L] : s.start <= s.end}

WordWithSpeaker(w, sp) ==
    [word |-> w.word, start |-> w.start, end |-> w.end, speaker |-> sp]

\* start and end exchanged.
TranscriptSegment_swapped(st, en, sp, txt) ==
    [start |-> en, end |-> st, speaker |-> sp, text |-> txt]

TranscriptSegment(st, en, sp, txt) ==
    [start |-> st, end |-> en, speaker |-> sp, text |-> txt]

Abs(x) == IF x < 0 THEN -x ELSE x

Min(x, y) == IF x <= y THEN x ELSE y

\* ------------------------------------------------------ speaker assigner
\* Twice the center time of a word.
get_word_center(word) == word.start + word.end

RECURSIVE FirstContaining(_, _, _)
FirstContaining(time, speaker_segments, i) ==
    IF i > Len(speaker_segments) THEN NoSpeaker
    ELSE IF 2 * speaker_segments[i].start <= time /\ time <= 2 * speaker_segments[i].end
         THEN speaker_segments[i].speaker
         ELSE FirstContaining(time, speaker_segments, i + 1)

RECURSIVE LastContaining(_, _, _)
LastContaining(time, speaker_segments, i) ==
    IF i < 1 THEN NoSpeaker
    ELSE IF 2 * speaker_segments[i].start <= time /\ time <= 2 * speaker_segments[i].end
         THEN speaker_segments[i].speaker
         ELSE LastContaining(time, speaker_segments, i - 1)

find_speaker_at_time_last(time, speaker_segments) ==
    LastContaining(time, speaker_segments, Len(speaker_segments))

find_speaker_at_time(time, speaker_segments) ==
    FirstContaining(time, speaker_segments, 1)

\* Doubled distance from a doubled time to the nearer bound of a segment.
min_seg_dist(time, seg) ==
    Min(Abs(time - 2 * seg.start), Abs(time - 2 * seg.end))

\* The loop of find_closest_speaker: acc is (min_distance, closest_speaker),
\* min_distance starting at infinity (acc.inf).
RECURSIVE ClosestLoop(_, _, _, _)
ClosestLoop(time, speaker_segments, i, acc) ==
    IF i > Len(speaker_segments) THEN acc.closest_speaker
    ELSE LET d == min_seg_dist(time, speaker_segments[i])
         IN  IF acc.inf \/ d < acc.min_distance
             THEN ClosestLoop(time, speaker_segments, i + 1,
                      [inf |-> FALSE, min_distance |-> d,
                       closest_speaker |-> speaker_segments[i].speaker])
             ELSE ClosestLoop(time, speaker_segments, i + 1, acc)

RECURSIVE ClosestLoopLe(_, _, _, _)
ClosestLoopLe(time, speaker_segments, i, acc) ==
    IF i > Len(speaker_segments) THEN acc.closest_speaker
    ELSE LET d == min_seg_dist(time, speaker_segments[i])
         IN  IF acc.inf \/ d <= acc.min_distance
             THEN ClosestLoopLe(time, speaker_segments, i + 1,
                      [inf |-> FALSE, min_distance |-> d,
                       closest_speaker |-> speaker_segments[i].speaker])
             ELSE ClosestLoopLe(time, speaker_segments, i + 1, acc)

find_closest_speaker_le(time, speaker_segments) ==
    IF speaker_segments = <<>> THEN UNKNOWN
    ELSE ClosestLoopLe(time, speaker_segments, 1,
             [inf |-> TRUE, min_distance |-> 0, closest_speaker |-> UNKNOWN])

find_closest_speaker(time, speaker_segments) ==
    IF speaker_segments = <<>> THEN UNKNOWN
    ELSE ClosestLoop(time, speaker_segments, 1,
             [inf |-> TRUE, min_distance |-> 0, closest_speaker |-> UNKNOWN])

\* Without the fallback to the closest speaker: a missing speaker stays.
speaker_of_word_no_closest(word, speaker_segments) ==
    find_speaker_at_time(get_word_center(word), speaker_segments)

\* The speaker one word gets when the segment list is not empty.
speaker_of_word(word, speaker_segments) ==
    LET center_time == get_word_center(word)
        speaker == find_speaker_at_time(center_time, speaker_segments)
    IN  IF speaker = NoSpeaker
        THEN find_closest_speaker(center_time, speaker_segments)
        ELSE speaker

assign_speakers_drop_last(words, speaker_segments) ==
    [i \in 1..(IF Len(words) > 1 THEN Len(words) - 1 ELSE Len(words)) |->
        WordWithSpeaker(words[i], IF speaker_segments = <<>> THEN FALLBACK_SPEAKER
                                  ELSE speaker_of_word(words[i], speaker_segments))]

assign_speakers_no_fallback(words, speaker_segments) ==
    [i \in 1..Len(words) |->
        WordWithSpeaker(words[i],
            LET sp == find_speaker_at_time(get_word_center(words[i]), speaker_segments)
            IN  IF sp = NoSpeaker
                THEN find_closest_speaker(get_word_center(words[i]), speaker_segments)
                ELSE sp)]

assign_speakers_to_words(words, speaker_segments) ==
    IF speaker_segments = <<>>
    THEN [i \in 1..Len(words) |-> WordWithSpeaker(words[i], FALLBACK_SPEAKER)]
    ELSE [i \in 1..Len(words) |->
             WordWithSpeaker(words[i], speaker_of_word(words[i], speaker_segments))]

\* --------------------------------------------------- segment reconstructor
\* The loop of reconstruct_segments: cur is the open segment
\* (current_speaker, current_start, current_end, text of current_words).
\* Only a change of speaker splits; the pause is ignored.
starts_new_segment_speaker_only(word, prev_word, current_speaker) ==
    word.speaker # current_speaker

\* A pause of PAUSE_THRESHOLD or more splits (>= in place of >).
starts_new_segment_ge(word, prev_word, current_speaker) ==
    LET pause == word.start - prev_word.end
    IN  word.speaker # current_speaker \/ pause >= PAUSE_THRESHOLD

\* The test of the loop body: speaker_changed or significant_pause.
starts_new_segment(word, prev_word, current_speaker) ==
    LET pause == word.start - prev_word.end
        speaker_changed == word.speaker # current_speaker
        significant_pause == pause > PAUSE_THRESHOLD
    IN  speaker_changed \/ significant_pause

RECURSIVE ReconstructLoop(_, _, _, _)
ReconstructLoop(wws, i, cur, segments) ==
    IF i > Len(wws)
    THEN Append(segments, cur)
    ELSE LET word == wws[i]
             prev_word == wws[i - 1]
         IN  IF starts_new_segment(word, prev_word, cur.speaker)
             THEN ReconstructLoop(wws, i + 1,
                      TranscriptSegment(word.start, word.end, word.speaker, word.word),
                      Append(segments, cur))
             ELSE ReconstructLoop(wws, i + 1,
                      TranscriptSegment(cur.start, word.end, cur.speaker,
                                        cur.text \o " " \o word.word),
                      segments)

\* Without the flush of the open segment at the end of the input.
reconstruct_segments_no_flush(words_with_speakers) ==
    IF words_with_speakers = <<>> THEN <<>>
    ELSE LET all == ReconstructLoop(words_with_speakers, 2,
                        TranscriptSegment(words_with_speakers[1].start,
                                          words_with_speakers[1].end,
                                          words_with_speakers[1].speaker,
                                          words_with_speakers[1].word),
                        <<>>)
         IN  SubSeq(all, 1, Len(all) - 1)

reconstruct_segments(words_with_speakers) ==
    IF words_with_speakers = <<>> THEN <<>>
    ELSE ReconstructLoop(words_with_speakers, 2,
             TranscriptSegment(words_with_speakers[1].start, words_with_speakers[1].end,
                               words_with_speakers[1].speaker, words_with_speakers[1].word),
             <<>>)

align_precision(words, speaker_segments) ==
    reconstruct_segments(assign_speakers_to_words(words, speaker_segments))

\* ------------------------------------------------------- output formatter
Pad2(n) == IF n < 10 THEN "0" \o ToString(n) ELSE ToString(n)

Pad3(n) == IF n < 10 THEN "00" \o ToString(n)
           ELSE IF n < 100 THEN "0" \o ToString(n) ELSE ToString(n)

format_timestamp_txt(seconds) ==
    LET hours == seconds \div 3600
        minutes == (seconds % 3600) \div 60
        secs == seconds % 60
    IN  Pad2(hours) \o ":" \o Pad2(minutes) \o ":" \o Pad2(secs)

\* Binary floating point (IEEE-754 double, 53-bit significand), in integers.
RECURSIVE Pow2(_)
Pow2(n) == IF n = 0 THEN 1 ELSE 2 * Pow2(n - 1)

RECURSIVE FloorLog2(_)
FloorLog2(n) == IF n < 2 THEN 0 ELSE 1 + FloorLog2(n \div 2)

\* 2^k modulo 2000.
RECURSIVE Pow2Mod2000(_)
Pow2Mod2000(k) == IF k = 0 THEN 1 ELSE (2 * Pow2Mod2000(k - 1)) % 2000

\* floor(log2(thousandths / 1000)) for 1 <= thousandths.
BinaryExponent(thousandths) ==
    IF thousandths >= 1000
    THEN FloorLog2(thousandths \div 1000)
    ELSE 0 - (CHOOSE d \in 1..10 :
                 thousandths * Pow2(d) >= 1000 /\ thousandths * Pow2(d - 1) < 1000)

\* int((seconds % 1) * 1000) where seconds is the double nearest to the
\* decimal whole.frac_ms.  The double is q * 2^-k with q the nearest integer
\* to (1000*whole + frac_ms) * 2^k / 1000 (ties to even); r is the remainder
\* of that division.  seconds % 1 is exact.  When the double lies below
\* the decimal, the product with 1000 lies r * 2^-k below frac_ms and is
\* rounded to a double again: it comes back to frac_ms only when that is
\* within half a unit in the last place below frac_ms (2^t * 2^-k).
srt_millis(whole, frac_ms) ==
    IF frac_ms = 0 THEN 0
    ELSE LET thousandths == 1000 * whole + frac_ms
             e == BinaryExponent(thousandths)
             k == 52 - e
             rem2000 == ((thousandths % 2000) * Pow2Mod2000(k)) % 2000
             r == rem2000 % 1000
             quotient_odd == rem2000 >= 1000
             rounded_up == r > 500 \/ (r = 500 /\ quotient_odd)
             ulp_exponent == IF Pow2(FloorLog2(frac_ms)) = frac_ms
                             THEN FloorLog2(frac_ms) - 1 ELSE FloorLog2(frac_ms)
             t == ulp_exponent - e - 1
         IN  IF r = 0 \/ rounded_up THEN frac_ms
             ELSE IF t >= 0 /\ r <= Pow2(t) THEN frac_ms
             ELSE frac_ms - 1

\* format_timestamp_srt of the double nearest to the decimal whole.frac_ms;
\* the integer parts of a double are those of its whole seconds.
format_timestamp_srt_of(whole, frac_ms) ==
    LET hours == whole \div 3600
        minutes == (whole % 3600) \div 60
        secs == whole % 60
        millis == srt_millis(whole, frac_ms)
    IN  Pad2(hours) \o ":" \o Pad2(minutes) \o ":" \o Pad2(secs) \o "," \o Pad3(millis)

\* Whole seconds: the fraction (seconds % 1) is 0.
format_timestamp_srt(seconds) == format_timestamp_srt_of(seconds, 0)

RECURSIVE JoinLines(_)
JoinLines(lines) ==
    IF lines = <<>> THEN ""
    ELSE IF Len(lines) = 1 THEN lines[1]
    ELSE lines[1] \o "\n" \o JoinLines(Tail(lines))

txt_line(seg) ==
    "[" \o format_timestamp_txt(seg.start) \o " - " \o format_timestamp_txt(seg.end)
        \o "] " \o seg.speaker \o ": " \o seg.text

RECURSIVE srt_lines(_, _)
srt_lines(segments, i) ==
    IF i > Len(segments) THEN <<>>
    ELSE << ToString(i),
            format_timestamp_srt(segments[i].start) \o " --> "
                \o format_timestamp_srt(segments[i].end),
            "[" \o segments[i].speaker \o "] " \o segments[i].text,
            "" >> \o srt_lines(segments, i + 1)

\* The lines in the reverse of segment order.
generate_txt_reversed(segments) ==
    JoinLines([i \in 1..Len(segments) |-> txt_line(segments[Len(segments) - i + 1])])

\* The text generate_txt writes.
generate_txt(segments) ==
    JoinLines([i \in 1..Len(segments) |-> txt_line(segments[i])])

\* The text generate_srt writes.
generate_srt(segments) == JoinLines(srt_lines(segments, 1))

\* ------------------------------------------------------------ the engines
RawSpeakers == {"SPEAKER_00", "SPEAKER_01"}

\* The text of the engine's i-th word: odd words carry a leading space.
RawText(i) == IF i % 2 = 1 THEN " a" ELSE "b"

\* str.strip() on the texts the engine returns.
strip(text) == IF text = " a" THEN "a" ELSE text

NonDecreasingStart(ws) == \A i \in 1..(Len(ws) - 1) : ws[i].start <= ws[i + 1].start

Intervals(T) == {iv \in [start : 0..T, end : 0..T] : iv.start <= iv.end}

\* What the speech-to-text engine may yield for a file: words in
\* non-decreasing start order.
EngineWords ==
    {[i \in 1..Len(ivs) |->
         [word |-> RawText(i), start |-> ivs[i].start, end |-> ivs[i].end]] :
     ivs \in {x \in SeqsUpTo(Intervals(PipeTime), PipeWords) : NonDecreasingStart(x)}}

\* What the diarization engine may yield for a file: turns in any order.
EngineTracks == SeqsUpTo(SpeakerSegment(PipeTime, RawSpeakers), PipeSegs)

\* TranscriptionService.transcribe: every word of every segment, stripped.
transcribe(engine_words) ==
    [i \in 1..Len(engine_words) |->
        [word |-> strip(engine_words[i].word),
         start |-> engine_words[i].start, end |-> engine_words[i].end]]

\* The loop of DiarizationService.diarize: speaker_map lists the engine's
\* labels in order of first appearance, the k-th being "Speaker k".
RECURSIVE DiarizeLoop(_, _, _, _)
DiarizeLoop(tracks, i, speaker_map, segments) ==
    IF i > Len(tracks) THEN segments
    ELSE LET speaker == tracks[i].speaker
             map2 == IF \E k \in 1..Len(speaker_map) : speaker_map[k] = speaker
                     THEN speaker_map ELSE Append(speaker_map, speaker)
             n == CHOOSE k \in 1..Len(map2) : map2[k] = speaker
         IN  DiarizeLoop(tracks, i + 1, map2,
                 Append(segments, [start |-> tracks[i].start, end |-> tracks[i].end,
                                   speaker |-> "Speaker " \o ToString(n)]))

diarize(tracks) == DiarizeLoop(tracks, 1, <<>>, <<>>)

\* ------------------------------------------------------- the orchestrator
\* asyncio.gather(transcription_task, diarization_task, return_exceptions=False):
\* it returns the two results once both tasks have returned, and raises the
\* first exception as soon as one task has raised; the other task is not
\* cancelled and keeps running.
gather_returns_first(t, d) == t = "ok"

gather_returns(t, d) == t = "ok" /\ d = "ok"

gather_raises_diarization_only(t, d) == d = "failed"

gather_raises(t, d) == t = "failed" \/ d = "failed"

ProcessingEvent(message, progress) ==
    [status |-> "processing", message |-> message, progress |-> progress]

Event20 == ProcessingEvent("Noise reduction applied", 20)

Event40 == ProcessingEvent("Transcription & Diarization starting...", 40)

Event80 == ProcessingEvent("AI models finished processing", 80)

Event90Low == ProcessingEvent("Aligning speakers with text...", 70)

Event90 == ProcessingEvent("Aligning speakers with text...", 90)

Event95 == ProcessingEvent("Generating export files...", 95)

ErrorEvent == [status |-> "error", message |-> "AI processing failed"]

CompletedEvent(result) ==
    [status |-> "completed", message |-> "Processing complete", progress |-> 100,
     result |-> result]

\* The request's file name stem and the two artifact paths made from it.
base_filename == "req"

txt_path == base_filename \o ".txt"

srt_path == base_filename \o ".srt"

NoFiles == [p \in {} |-> ""]

\* A write that leaves no file behind when the text is empty.
Written_skip_empty(fs, path, text) ==
    IF text = "" THEN fs
    ELSE [p \in (DOMAIN fs) \cup {path} |-> IF p = path THEN text ELSE fs[p]]

\* write_text(path, text) that succeeds.
Written(fs, path, text) ==
    [p \in (DOMAIN fs) \cup {path} |-> IF p = path THEN text ELSE fs[p]]

\* write_text(path, text) that raises: either the file could not be opened
\* (nothing changes) or it was opened, truncated, and the write failed.
FailedWrites(fs, path) == {fs, Written(fs, path, "")}

NoResult == [success |-> FALSE]

TranscriptionResponse(segments, num_speakers, txt, srt) ==
    [success |-> TRUE, message |-> "Transcription completed successfully",
     segments |-> segments, num_speakers |-> num_speakers,
     download_txt |-> "/api/download/" \o txt,
     download_srt |-> "/api/download/" \o srt]

\* One entry per segment in place of one per distinct label.
SpeakerSet_per_segment(segments) == 1..Len(segments)

SpeakerSet(segments) == {segments[i].speaker : i \in 1..Len(segments)}

\* ------------------------------------------------------------------ state
VARIABLES
    pc,                   \* where process_audio_stream stands
    transcription_task,   \* "created", "running", "ok" or "failed"
    diarization_task,     \* "created", "running", "ok" or "failed"
    t_result,             \* what the transcription task returned
    d_result,             \* what the diarization task returned
    word_timestamps,      \* orchestrator local (line 54)
    speaker_segments,     \* orchestrator local (line 54)
    aligned_segments,     \* orchestrator local (line 67)
    speakers,             \* orchestrator local (line 70)
    events,               \* the events yielded so far
    files,                \* the artifacts in processed_dir: path -> text
    result,               \* the TranscriptionResponse, once built
    words,                \* AssignSpeakers: the caller's word list
    segs,                 \* AssignSpeakers: the caller's speaker-segment list
    words_with_speakers,  \* AssignSpeakers: the returned list
    apc,                  \* "idle", "call" before the call, "returned" after it
    seconds,              \* format_timestamp_*: the time [whole, frac_ms]
    timestamp_txt,        \* what format_timestamp_txt returned
    timestamp_srt,        \* what format_timestamp_srt returned
    rpc,                  \* where the /api/transcribe handler stands
    upload,               \* the uploaded file: [filename, size]
    wav_path,             \* the handler's local wav_path
    response,             \* the HTTP response of the handler
    background_tasks,     \* the paths given to scheduled cleanup_files tasks
    runs,                 \* concurrent pipeline runs: request id -> run state
    _model,               \* the cached handles: _model and _pipeline, by service
    workers,              \* worker threads inside get_model / get_pipeline
    loads,                \* how often each service's loader has been executed
    hf_token              \* whether settings.hf_token is set

pipe_vars == <<pc, transcription_task, diarization_task, t_result, d_result,
               word_timestamps, speaker_segments, aligned_segments, speakers,
               events, files, result>>

align_vars == <<words, segs, words_with_speakers, apc>>

stamp_vars == <<seconds, timestamp_txt, timestamp_srt>>

route_vars == <<rpc, upload, wav_path, response, background_tasks>>

load_vars == <<_model, workers, loads, hf_token>>

other_vars == <<stamp_vars, route_vars, runs, load_vars>>

vars == <<pipe_vars, align_vars, other_vars>>

InitPipe ==
    /\ pc = "start"
    /\ transcription_task = "created"
    /\ diarization_task = "created"
    /\ t_result = <<>>
    /\ d_result = <<>>
    /\ word_timestamps = <<>>
    /\ speaker_segments = <<>>
    /\ aligned_segments = <<>>
    /\ speakers = {}
    /\ events = <<>>
    /\ files = NoFiles
    /\ result = NoResult

InitStampIdle ==
    /\ seconds = [whole |-> 0, frac_ms |-> 0]
    /\ timestamp_txt = ""
    /\ timestamp_srt = ""

None == "<None>"

NoResponse == [status_code |-> 0]

InitRouteIdle ==
    /\ rpc = "idle"
    /\ upload = [filename |-> "", size |-> 0]
    /\ wav_path = None
    /\ response = NoResponse
    /\ background_tasks = {}

InitRunsIdle == runs = <<>>

Services == {"whisper", "pyannote"}

\* _model = None
NoModel == 0

InitLoadIdle ==
    /\ _model = [service \in Services |-> NoModel]
    /\ workers = <<>>
    /\ loads = [service \in Services |-> 0]
    /\ hf_token = TRUE

InitOtherIdle == InitStampIdle /\ InitRouteIdle /\ InitRunsIdle /\ InitLoadIdle

\* --------------------------------------------- the aligner as a function
AlignInputs ==
    UNION {[1..n[1] -> WordTimestamp(MaxTime)] \X [1..n[2] -> SpeakerSegment(MaxTime, Labels)] :
              n \in {m \in (0..MaxItems) \X (0..MaxItems) : m[1] + m[2] <= MaxItems}}

InitAlign ==
    /\ InitPipe
    /\ InitOtherIdle
    /\ \E in \in AlignInputs : words = in[1] /\ segs = in[2]
    /\ words_with_speakers = <<>>
    /\ apc = "call"

AssignSpeakers ==
    /\ apc = "call"
    /\ words_with_speakers' = assign_speakers_to_words(words, segs)
    /\ apc' = "returned"
    /\ UNCHANGED <<words, segs, pipe_vars, other_vars>>

\* ------------------------------------------------------ the pipeline run
InitAlignIdle ==
    /\ words = <<>>
    /\ segs = <<>>
    /\ words_with_speakers = <<>>
    /\ apc = "idle"

Init == InitPipe /\ InitAlignIdle /\ InitOtherIdle

\* Lines 40-43: up to the first yield.
Report20 ==
    /\ pc = "start"
    /\ events' = Append(events, Event20)
    /\ pc' = "y20"
    /\ UNCHANGED <<transcription_task, diarization_task, t_result, d_result,
                   word_timestamps, speaker_segments, aligned_segments, speakers,
                   files, result, align_vars, other_vars>>

\* Line 46: the second yield.
Report40 ==
    /\ pc = "y20"
    /\ events' = Append(events, Event40)
    /\ pc' = "y40"
    /\ UNCHANGED <<transcription_task, diarization_task, t_result, d_result,
                   word_timestamps, speaker_segments, aligned_segments, speakers,
                   files, result, align_vars, other_vars>>

\* Lines 48-54: both coroutines are created and gather schedules them on the
\* thread pool; the orchestrator suspends at the await.
Launch ==
    /\ pc = "y40"
    /\ transcription_task' = "running"
    /\ diarization_task' = "running"
    /\ pc' = "gather"
    /\ UNCHANGED <<t_result, d_result, word_timestamps, speaker_segments,
                   aligned_segments, speakers, events, files, result, align_vars, other_vars>>

\* The worker thread of transcribe_async returns the word list.
TranscribeReturns ==
    /\ transcription_task = "running"
    /\ \E engine_words \in EngineWords : t_result' = transcribe(engine_words)
    /\ transcription_task' = "ok"
    /\ UNCHANGED <<pc, diarization_task, d_result, word_timestamps, speaker_segments,
                   aligned_segments, speakers, events, files, result, align_vars, other_vars>>

\* The worker thread of transcribe_async raises.
TranscribeRaises ==
    /\ transcription_task = "running"
    /\ transcription_task' = "failed"
    /\ UNCHANGED <<pc, diarization_task, t_result, d_result, word_timestamps,
                   speaker_segments, aligned_segments, speakers, events, files,
                   result, align_vars, other_vars>>

\* The worker thread of diarize_async returns the speaker segments.
DiarizeReturns ==
    /\ diarization_task = "running"
    /\ \E tracks \in EngineTracks : d_result' = diarize(tracks)
    /\ diarization_task' = "ok"
    /\ UNCHANGED <<pc, transcription_task, t_result, word_timestamps, speaker_segments,
                   aligned_segments, speakers, events, files, result, align_vars, other_vars>>

\* The worker thread of diarize_async raises (no token, engine failure).
DiarizeRaises ==
    /\ diarization_task = "running"
    /\ diarization_task' = "failed"
    /\ UNCHANGED <<pc, transcription_task, t_result, d_result, word_timestamps,
                   speaker_segments, aligned_segments, speakers, events, files,
                   result, align_vars, other_vars>>

\* Lines 54-59: gather returns both results; the 80% event is yielded.
GatherReturns ==
    /\ pc = "gather"
    /\ gather_returns(transcription_task, diarization_task)
    /\ word_timestamps' = t_result
    /\ speaker_segments' = d_result
    /\ events' = Append(events, Event80)
    /\ pc' = "y80"
    /\ UNCHANGED <<transcription_task, diarization_task, t_result, d_result,
                   aligned_segments, speakers, files, result, align_vars, other_vars>>

\* Lines 60-62: gather raises; the error event is yielded.
GatherRaises ==
    /\ pc = "gather"
    /\ gather_raises(transcription_task, diarization_task)
    /\ events' = Append(events, ErrorEvent)
    /\ pc' = "yerr"
    /\ UNCHANGED <<transcription_task, diarization_task, t_result, d_result,
                   word_timestamps, speaker_segments, aligned_segments, speakers,
                   files, result, align_vars, other_vars>>

\* Line 63: return after the error event.
ReturnAfterError ==
    /\ pc = "yerr"
    /\ pc' = "error_end"
    /\ UNCHANGED <<transcription_task, diarization_task, t_result, d_result,
                   word_timestamps, speaker_segments, aligned_segments, speakers,
                   events, files, result, align_vars, other_vars>>

\* Line 66: the 90% event.
Report90 ==
    /\ pc = "y80"
    /\ events' = Append(events, Event90)
    /\ pc' = "y90"
    /\ UNCHANGED <<transcription_task, diarization_task, t_result, d_result,
                   word_timestamps, speaker_segments, aligned_segments, speakers,
                   files, result, align_vars, other_vars>>

\* Lines 67-73: alignment, the speaker set, the 95% event.
Align ==
    /\ pc = "y90"
    /\ aligned_segments' = align_precision(word_timestamps, speaker_segments)
    /\ speakers' = SpeakerSet(aligned_segments')
    /\ events' = Append(events, Event95)
    /\ pc' = "y95"
    /\ UNCHANGED <<transcription_task, diarization_task, t_result, d_result,
                   word_timestamps, speaker_segments, files, result, align_vars, other_vars>>

\* Lines 74-75, generate_outputs line 309: the .txt artifact is written, or
\* the write raises and the exception leaves the generator.
WriteTxt ==
    /\ pc = "y95"
    /\ \/ /\ files' = Written(files, txt_path, generate_txt(aligned_segments))
          /\ pc' = "txt_written"
       \/ /\ files' \in FailedWrites(files, txt_path)
          /\ pc' = "raised"
    /\ UNCHANGED <<transcription_task, diarization_task, t_result, d_result,
                   word_timestamps, speaker_segments, aligned_segments, speakers,
                   events, result, align_vars, other_vars>>

\* generate_outputs line 310: the .srt artifact is written, or the write
\* raises and the exception leaves the generator.
WriteSrt ==
    /\ pc = "txt_written"
    /\ \/ /\ files' = Written(files, srt_path, generate_srt(aligned_segments))
          /\ pc' = "srt_written"
       \/ /\ files' \in FailedWrites(files, srt_path)
          /\ pc' = "raised"
    /\ UNCHANGED <<transcription_task, diarization_task, t_result, d_result,
                   word_timestamps, speaker_segments, aligned_segments, speakers,
                   events, result, align_vars, other_vars>>

\* Lines 77-96: the result record and the completed event.
Assemble ==
    /\ pc = "srt_written"
    /\ result' = TranscriptionResponse(aligned_segments, Cardinality(speakers),
                                       txt_path, srt_path)
    /\ events' = Append(events, CompletedEvent(result'))
    /\ pc' = "ycompleted"
    /\ UNCHANGED <<transcription_task, diarization_task, t_result, d_result,
                   word_timestamps, speaker_segments, aligned_segments, speakers,
                   files, align_vars, other_vars>>

\* The generator is exhausted after the completed event.
Finish ==
    /\ pc = "ycompleted"
    /\ pc' = "done"
    /\ UNCHANGED <<transcription_task, diarization_task, t_result, d_result,
                   word_timestamps, speaker_segments, aligned_segments, speakers,
                   events, files, result, align_vars, other_vars>>

Next ==
    \/ Report20 \/ Report40 \/ Launch
    \/ TranscribeReturns \/ TranscribeRaises \/ DiarizeReturns \/ DiarizeRaises
    \/ GatherReturns \/ GatherRaises \/ ReturnAfterError
    \/ Report90 \/ Align \/ WriteTxt \/ WriteSrt \/ Assemble \/ Finish

Spec == Init /\ [][Next]_vars

\* ------------------------------------- the run once both tasks returned
\* Word lists of at most MaxItems words with times 0..MaxTime, as transcribe
\* returns them.
ReturnedWords ==
    UNION {{transcribe([i \in 1..n |-> [word |-> RawText(i), start |-> ivs[i].start,
                                         end |-> ivs[i].end]]) :
            ivs \in {x \in [1..n -> Intervals(MaxTime)] : NonDecreasingStart(x)}} :
           n \in 0..MaxItems}

\* Speaker turns as diarize returns them: none, one turn over 0..MaxTime, or
\* two turns of two speakers meeting at a time t.
ReturnedTurns ==
    {diarize(tracks) :
        tracks \in {<<>>, <<[start |-> 0, end |-> MaxTime, speaker |-> "SPEAKER_00"]>>}
            \cup {<<[start |-> 0, end |-> t, speaker |-> "SPEAKER_00"],
                     [start |-> t, end |-> MaxTime, speaker |-> "SPEAKER_01"]>> :
                   t \in 0..MaxTime}}

\* The run at the await of gather (line 54) when both tasks have returned.
InitReturned ==
    /\ InitAlignIdle
    /\ InitOtherIdle
    /\ pc = "gather"
    /\ transcription_task = "ok"
    /\ diarization_task = "ok"
    /\ t_result \in ReturnedWords
    /\ d_result \in ReturnedTurns
    /\ word_timestamps = <<>>
    /\ speaker_segments = <<>>
    /\ aligned_segments = <<>>
    /\ speakers = {}
    /\ events = <<Event20, Event40>>
    /\ files = NoFiles
    /\ result = NoResult

NextReturned ==
    \/ GatherReturns \/ Report90 \/ Align \/ WriteTxt \/ WriteSrt \/ Assemble \/ Finish

SpecReturned == InitReturned /\ [][NextReturned]_vars

NextAlign == AssignSpeakers

SpecAlign == InitAlign /\ [][NextAlign]_vars

\* align_precision: the speakers are assigned and the segments rebuilt from
\* the labelled words.
AlignPrecision ==
    /\ apc = "call"
    /\ words_with_speakers' = assign_speakers_to_words(words, segs)
    /\ aligned_segments' = reconstruct_segments(words_with_speakers')
    /\ apc' = "aligned"
    /\ UNCHANGED <<pc, transcription_task, diarization_task, t_result, d_result,
                   word_timestamps, speaker_segments, speakers, events, files,
                   result, words, segs, other_vars>>

NextAlignPrecision == AlignPrecision

SpecAlignPrecision == InitAlign /\ [][NextAlignPrecision]_vars

\* ------------------------------------- the reconstructor as a function
\* The text of the i-th word of a call of the reconstructor.
WordText(i) == "w" \o ToString(i)

\* A labelled word of a call of the reconstructor, less its text: any start
\* and end in 0..MaxTime, in any order.
TimedLabels == [start : 0..MaxTime, end : 0..MaxTime, speaker : Labels]

\* Any list of at most MaxItems labelled words.
InitReconstruct ==
    /\ InitPipe
    /\ InitOtherIdle
    /\ words = <<>>
    /\ segs = <<>>
    /\ \E n \in 0..MaxItems : \E ts \in [1..n -> TimedLabels] :
           words_with_speakers =
               [i \in 1..n |->
                   [word |-> WordText(i), start |-> ts[i].start, end |-> ts[i].end,
                    speaker |-> ts[i].speaker]]
    /\ apc = "reconstruct"

ReconstructSegments ==
    /\ apc = "reconstruct"
    /\ aligned_segments' = reconstruct_segments(words_with_speakers)
    /\ apc' = "reconstructed"
    /\ UNCHANGED <<pc, transcription_task, diarization_task, t_result, d_result,
                   word_timestamps, speaker_segments, speakers, events, files,
                   result, words, segs, words_with_speakers, other_vars>>

NextReconstruct == ReconstructSegments

SpecReconstruct == InitReconstruct /\ [][NextReconstruct]_vars

\* ----------------------------------------- the formatters as functions
\* The text of the i-th segment of a call of the formatters: one word or two.
SegmentText(i) ==
    IF i % 2 = 1 THEN WordText(i) ELSE WordText(i) \o " " \o WordText(i + 1)

\* A segment less its text: start <= end in 0..MaxTime, either label.
TimedTurns == SpeakerSegment(MaxTime, Labels)

\* Any list of at most MaxItems segments.
InitFormat ==
    /\ InitOtherIdle
    /\ pc = "start"
    /\ transcription_task = "created"
    /\ diarization_task = "created"
    /\ t_result = <<>>
    /\ d_result = <<>>
    /\ word_timestamps = <<>>
    /\ speaker_segments = <<>>
    /\ \E n \in 0..MaxItems : \E ts \in [1..n -> TimedTurns] :
           aligned_segments =
               [i \in 1..n |->
                   TranscriptSegment(ts[i].start, ts[i].end, ts[i].speaker,
                                     SegmentText(i))]
    /\ speakers = {}
    /\ events = <<>>
    /\ files = NoFiles
    /\ result = NoResult
    /\ words = <<>>
    /\ segs = <<>>
    /\ words_with_speakers = <<>>
    /\ apc = "format"

GenerateTxt ==
    /\ apc = "format"
    /\ files' = Written(files, txt_path, generate_txt(aligned_segments))
    /\ apc' = "txt_generated"
    /\ UNCHANGED <<pc, transcription_task, diarization_task, t_result, d_result,
                   word_timestamps, speaker_segments, aligned_segments, speakers,
                   events, result, words, segs, words_with_speakers, other_vars>>

GenerateSrt ==
    /\ apc = "txt_generated"
    /\ files' = Written(files, srt_path, generate_srt(aligned_segments))
    /\ apc' = "srt_generated"
    /\ UNCHANGED <<pc, transcription_task, diarization_task, t_result, d_result,
                   word_timestamps, speaker_segments, aligned_segments, speakers,
                   events, result, words, segs, words_with_speakers, other_vars>>

NextFormat == GenerateTxt \/ GenerateSrt

SpecFormat == InitFormat /\ [][NextFormat]_vars

\* ------------------------------------ the timestamp formatters as functions
\* Whole seconds about the hour and minute carries.
WholeSeconds ==
    {3600 * h + 60 * m + sec : h \in 0..MaxHours, m \in {0, 1, 59}, sec \in {0, 1, 59}}

\* Any time whole.frac_ms, a decimal with three digits after the point.
InitTimestamp ==
    /\ InitPipe
    /\ words = <<>>
    /\ segs = <<>>
    /\ words_with_speakers = <<>>
    /\ apc = "timestamp"
    /\ InitRouteIdle
    /\ InitRunsIdle
    /\ InitLoadIdle
    /\ seconds \in [whole : WholeSeconds, frac_ms : 0..999]
    /\ timestamp_txt = ""
    /\ timestamp_srt = ""

\* format_timestamp_txt(seconds) and format_timestamp_srt(seconds); int()
\* of the floor quotients of a double is that of its whole seconds.
FormatTimestamps ==
    /\ apc = "timestamp"
    /\ timestamp_txt' = format_timestamp_txt(seconds.whole)
    /\ timestamp_srt' = format_timestamp_srt_of(seconds.whole, seconds.frac_ms)
    /\ apc' = "stamped"
    /\ UNCHANGED <<pipe_vars, words, segs, words_with_speakers, seconds, route_vars,
                   runs, load_vars>>

NextTimestamp == FormatTimestamps

SpecTimestamp == InitTimestamp /\ [][NextTimestamp]_vars

\* ------------------------------------------- the /api/transcribe handler
max_upload_size_bytes == max_upload_size_mb * 1024 * 1024

\* str.lower() on the extensions of the uploads.
lower(text) == IF text = "WAV" THEN "wav" ELSE text

Dots(filename) == {i \in 1..Len(filename) : SubSeq(filename, i, i) = "."}

\* filename.rsplit('.', 1)[-1].lower() if '.' in filename else ''
file_extension(filename) ==
    IF Dots(filename) = {} THEN ""
    ELSE LET last == CHOOSE i \in Dots(filename) : \A j \in Dots(filename) : j <= i
         IN  lower(SubSeq(filename, last + 1, Len(filename)))

\* AudioProcessor.validate_file: TRUE when it returns, FALSE when it raises
\* AudioProcessingError.
validate_file(filename, file_size) ==
    /\ file_extension(filename) \in ALLOWED_EXTENSIONS
    /\ file_size <= max_upload_size_bytes

\* file.filename or "audio.wav"
filename_or_default(filename) == IF filename = "" THEN "audio.wav" ELSE filename

\* The methods of the class PipelineOrchestrator.
PipelineOrchestratorAttributes == {"process_audio_stream"}

\* str(uuid.uuid4())[:8] of save_upload.
RequestIds == {"1a2b3c4d", "5e6f7a8b"}

\* The output path of convert_to_wav for the upload saved under unique_id.
processed_wav(unique_id) == unique_id \o "_processed.wav"

HTTPException(status_code, detail) == [status_code |-> status_code, detail |-> detail]

UploadFilenames ==
    {"", "a.mp3", "a.WAV", "a.m4a", "a.ogg", "a.flac", "a.webm", "a.tar.mp3", "a.txt",
     "mp3"}

UploadSizes == {1, max_upload_size_bytes, max_upload_size_bytes + 1}

Removed(fs, path) == [p \in (DOMAIN fs) \ {path} |-> fs[p]]

InitRoute ==
    /\ InitPipe
    /\ InitAlignIdle
    /\ InitStampIdle
    /\ InitRunsIdle
    /\ InitLoadIdle
    /\ rpc = "start"
    /\ upload \in [filename : UploadFilenames, size : UploadSizes]
    /\ wav_path = None
    /\ response = NoResponse
    /\ background_tasks = {}

\* Lines 50-59: the content is read and validated; a validation error is
\* answered with status 400.
ValidateUpload ==
    /\ rpc = "start"
    /\ IF validate_file(filename_or_default(upload.filename), upload.size)
       THEN rpc' = "validated" /\ UNCHANGED response
       ELSE /\ response' = HTTPException(400, "Invalid file")
            /\ rpc' = "responded"
    /\ UNCHANGED <<pipe_vars, align_vars, stamp_vars, upload, wav_path,
                   background_tasks, runs, load_vars>>

\* Lines 62-65, AudioProcessor.process_upload: the upload is saved under a
\* fresh id, converted to <id>_processed.wav and the original removed; or
\* the conversion raises AudioProcessingError, the original is removed and
\* wav_path stays None.
ProcessUpload ==
    /\ rpc = "validated"
    /\ \/ \E unique_id \in RequestIds :
              /\ wav_path' = processed_wav(unique_id)
              /\ files' = Written(files, wav_path', "RIFF")
              /\ rpc' = "processed"
       \/ /\ rpc' = "raised"
          /\ UNCHANGED <<wav_path, files>>
    /\ UNCHANGED <<pc, transcription_task, diarization_task, t_result, d_result,
                   word_timestamps, speaker_segments, aligned_segments, speakers,
                   events, result, align_vars, stamp_vars, upload, response,
                   background_tasks, runs, load_vars>>

\* Line 69: PipelineOrchestrator.process_audio(wav_path, duration).  The
\* class has no attribute process_audio, so the expression raises
\* AttributeError before anything is called.
CallProcessAudio ==
    /\ rpc = "processed"
    /\ "process_audio" \notin PipelineOrchestratorAttributes
    /\ rpc' = "raised"
    /\ UNCHANGED <<pipe_vars, align_vars, stamp_vars, upload, wav_path, response,
                   background_tasks, runs, load_vars>>

\* Lines 77-83: except Exception schedules the cleanup of an existing wav
\* file and answers with status 500.
HandleException ==
    /\ rpc = "raised"
    /\ background_tasks' =
           IF wav_path # None /\ wav_path \in DOMAIN files
           THEN background_tasks \cup {wav_path} ELSE background_tasks
    /\ response' = HTTPException(500, "Transcription failed")
    /\ rpc' = "responded"
    /\ UNCHANGED <<pipe_vars, align_vars, stamp_vars, upload, wav_path, runs, load_vars>>

\* Lines 115-122: a scheduled cleanup task removes its file after the
\* response.
CleanupFiles ==
    /\ rpc = "responded"
    /\ \E path \in background_tasks :
           /\ files' = Removed(files, path)
           /\ background_tasks' = background_tasks \ {path}
    /\ UNCHANGED <<pc, transcription_task, diarization_task, t_result, d_result,
                   word_timestamps, speaker_segments, aligned_segments, speakers,
                   events, result, align_vars, stamp_vars, rpc, upload, wav_path,
                   response, runs, load_vars>>

NextRoute ==
    \/ ValidateUpload \/ ProcessUpload \/ CallProcessAudio \/ HandleException
    \/ CleanupFiles

SpecRoute == InitRoute /\ [][NextRoute]_vars

\* ------------------------------------------- two concurrent pipeline runs
\* Path(wav_path).stem
stem(path) ==
    IF Dots(path) = {} THEN path
    ELSE LET last == CHOOSE i \in Dots(path) : \A j \in Dots(path) : j <= i
         IN  SubSeq(path, 1, last - 1)

\* text.replace("_processed", "") for a text with the mark at its end or
\* without it.
replace_processed(text) ==
    LET mark == "_processed"
    IN  IF Len(text) >= Len(mark)
           /\ SubSeq(text, Len(text) - Len(mark) + 1, Len(text)) = mark
        THEN SubSeq(text, 1, Len(text) - Len(mark))
        ELSE text

\* One name for every request.
base_filename_shared(path) == "output"

\* Line 74: base_filename = wav_path.stem.replace("_processed", "")
base_filename_of(path) == replace_processed(stem(path))

txt_path_of(path) == base_filename_of(path) \o ".txt"

srt_path_of(path) == base_filename_of(path) \o ".srt"

\* What the engines may return to a run: one word or two, one turn or two.
RunEngineWords ==
    {<<[word |-> RawText(1), start |-> 0, end |-> 0]>>,
     <<[word |-> RawText(1), start |-> 0, end |-> 0],
       [word |-> RawText(2), start |-> 1, end |-> 1]>>}

RunEngineTracks ==
    {<<[start |-> 0, end |-> 1, speaker |-> "SPEAKER_00"]>>,
     <<[start |-> 0, end |-> 0, speaker |-> "SPEAKER_00"],
       [start |-> 1, end |-> 1, speaker |-> "SPEAKER_01"]>>}

\* A run of process_audio_stream(wav_path, duration) at its entry.
NewRun(path) ==
    [wav_path |-> path, pc |-> "start",
     transcription_task |-> "created", diarization_task |-> "created",
     t_result |-> <<>>, d_result |-> <<>>,
     word_timestamps |-> <<>>, speaker_segments |-> <<>>,
     aligned_segments |-> <<>>, speakers |-> {}, events |-> <<>>,
     result |-> NoResult]

\* Two runs on the files of two uploads saved under different ids.
InitRuns ==
    /\ InitPipe
    /\ InitAlignIdle
    /\ InitStampIdle
    /\ InitRouteIdle
    /\ InitLoadIdle
    /\ runs = [id \in RequestIds |-> NewRun(processed_wav(id))]

run_frame == <<pc, transcription_task, diarization_task, t_result, d_result,
               word_timestamps, speaker_segments, aligned_segments, speakers,
               events, result, align_vars, stamp_vars, route_vars, load_vars>>

RunReport20(id) ==
    /\ runs[id].pc = "start"
    /\ runs' = [runs EXCEPT ![id].events = Append(@, Event20), ![id].pc = "y20"]
    /\ UNCHANGED <<files, run_frame>>

RunReport40(id) ==
    /\ runs[id].pc = "y20"
    /\ runs' = [runs EXCEPT ![id].events = Append(@, Event40), ![id].pc = "y40"]
    /\ UNCHANGED <<files, run_frame>>

RunLaunch(id) ==
    /\ runs[id].pc = "y40"
    /\ runs' = [runs EXCEPT ![id].transcription_task = "running",
                            ![id].diarization_task = "running",
                            ![id].pc = "gather"]
    /\ UNCHANGED <<files, run_frame>>

RunTranscribeReturns(id) ==
    /\ runs[id].transcription_task = "running"
    /\ \E engine_words \in RunEngineWords :
           runs' = [runs EXCEPT ![id].t_result = transcribe(engine_words),
                                ![id].transcription_task = "ok"]
    /\ UNCHANGED <<files, run_frame>>

RunTranscribeRaises(id) ==
    /\ runs[id].transcription_task = "running"
    /\ runs' = [runs EXCEPT ![id].transcription_task = "failed"]
    /\ UNCHANGED <<files, run_frame>>

RunDiarizeReturns(id) ==
    /\ runs[id].diarization_task = "running"
    /\ \E tracks \in RunEngineTracks :
           runs' = [runs EXCEPT ![id].d_result = diarize(tracks),
                                ![id].diarization_task = "ok"]
    /\ UNCHANGED <<files, run_frame>>

RunDiarizeRaises(id) ==
    /\ runs[id].diarization_task = "running"
    /\ runs' = [runs EXCEPT ![id].diarization_task = "failed"]
    /\ UNCHANGED <<files, run_frame>>

RunGatherReturns(id) ==
    /\ runs[id].pc = "gather"
    /\ gather_returns(runs[id].transcription_task, runs[id].diarization_task)
    /\ runs' = [runs EXCEPT ![id].word_timestamps = runs[id].t_result,
                            ![id].speaker_segments = runs[id].d_result,
                            ![id].events = Append(@, Event80),
                            ![id].pc = "y80"]
    /\ UNCHANGED <<files, run_frame>>

RunGatherRaises(id) ==
    /\ runs[id].pc = "gather"
    /\ gather_raises(runs[id].transcription_task, runs[id].diarization_task)
    /\ runs' = [runs EXCEPT ![id].events = Append(@, ErrorEvent), ![id].pc = "yerr"]
    /\ UNCHANGED <<files, run_frame>>

RunReturnAfterError(id) ==
    /\ runs[id].pc = "yerr"
    /\ runs' = [runs EXCEPT ![id].pc = "error_end"]
    /\ UNCHANGED <<files, run_frame>>

RunReport90(id) ==
    /\ runs[id].pc = "y80"
    /\ runs' = [runs EXCEPT ![id].events = Append(@, Event90), ![id].pc = "y90"]
    /\ UNCHANGED <<files, run_frame>>

RunAlign(id) ==
    /\ runs[id].pc = "y90"
    /\ LET aligned == align_precision(runs[id].word_timestamps,
                                      runs[id].speaker_segments)
       IN  runs' = [runs EXCEPT ![id].aligned_segments = aligned,
                                ![id].speakers = SpeakerSet(aligned),
                                ![id].events = Append(@, Event95),
                                ![id].pc = "y95"]
    /\ UNCHANGED <<files, run_frame>>

RunWriteTxt(id) ==
    /\ runs[id].pc = "y95"
    /\ \/ /\ files' = Written(files, txt_path_of(runs[id].wav_path),
                               generate_txt(runs[id].aligned_segments))
          /\ runs' = [runs EXCEPT ![id].pc = "txt_written"]
       \/ /\ files' \in FailedWrites(files, txt_path_of(runs[id].wav_path))
          /\ runs' = [runs EXCEPT ![id].pc = "raised"]
    /\ UNCHANGED run_frame

RunWriteSrt(id) ==
    /\ runs[id].pc = "txt_written"
    /\ \/ /\ files' = Written(files, srt_path_of(runs[id].wav_path),
                               generate_srt(runs[id].aligned_segments))
          /\ runs' = [runs EXCEPT ![id].pc = "srt_written"]
       \/ /\ files' \in FailedWrites(files, srt_path_of(runs[id].wav_path))
          /\ runs' = [runs EXCEPT ![id].pc = "raised"]
    /\ UNCHANGED run_frame

RunAssemble(id) ==
    /\ runs[id].pc = "srt_written"
    /\ LET response_model ==
               TranscriptionResponse(runs[id].aligned_segments,
                                     Cardinality(runs[id].speakers),
                                     txt_path_of(runs[id].wav_path),
                                     srt_path_of(runs[id].wav_path))
       IN  runs' = [runs EXCEPT ![id].result = response_model,
                                ![id].events = Append(@, CompletedEvent(response_model)),
                                ![id].pc = "ycompleted"]
    /\ UNCHANGED <<files, run_frame>>

RunFinish(id) ==
    /\ runs[id].pc = "ycompleted"
    /\ runs' = [runs EXCEPT ![id].pc = "done"]
    /\ UNCHANGED <<files, run_frame>>

NextRuns ==
    \E id \in RequestIds :
        \/ RunReport20(id) \/ RunReport40(id) \/ RunLaunch(id)
        \/ RunTranscribeReturns(id) \/ RunTranscribeRaises(id)
        \/ RunDiarizeReturns(id) \/ RunDiarizeRaises(id)
        \/ RunGatherReturns(id) \/ RunGatherRaises(id) \/ RunReturnAfterError(id)
        \/ RunReport90(id) \/ RunAlign(id) \/ RunWriteTxt(id) \/ RunWriteSrt(id)
        \/ RunAssemble(id) \/ RunFinish(id)

SpecRuns == InitRuns /\ [][NextRuns]_vars

\* ------------------------------------------- the lazily cached engines
\* The worker threads of run_in_executor that are inside get_model (service
\* "whisper") or get_pipeline (service "pyannote").
Callers == 1..MaxCallers

\* A thread at the call of the getter of a service: made is the instance
\* its loader call built, got the instance the getter returned to it.
NewCaller(service) ==
    [service |-> service, pc |-> "call", made |-> NoModel, got |-> NoModel]

\* No handle is cached yet (the preload at startup failed or was skipped).
InitLoad ==
    /\ InitPipe
    /\ InitAlignIdle
    /\ InitStampIdle
    /\ InitRouteIdle
    /\ InitRunsIdle
    /\ _model = [service \in Services |-> NoModel]
    /\ \E service \in Services : workers = [w \in Callers |-> NewCaller(service)]
    /\ loads = [service \in Services |-> 0]
    /\ hf_token \in BOOLEAN

load_frame == <<pipe_vars, align_vars, stamp_vars, route_vars, runs, hf_token>>

\* `if cls._model is None:` (and, in get_pipeline, `if not hf_token: raise`).
CheckCache(w) ==
    /\ workers[w].pc = "call"
    /\ workers' = [workers EXCEPT ![w].pc =
           IF _model[workers[w].service] # NoModel THEN "return"
           ELSE IF workers[w].service = "pyannote" /\ ~hf_token THEN "raised"
           ELSE "load"]
    /\ UNCHANGED <<_model, loads, load_frame>>

\* WhisperModel(...) / Pipeline.from_pretrained(...) returns a new instance,
\* the loads-th one of its service.
RunLoader(w) ==
    /\ workers[w].pc = "load"
    /\ loads' = [loads EXCEPT ![workers[w].service] = @ + 1]
    /\ workers' = [workers EXCEPT ![w].made = loads'[workers[w].service], ![w].pc = "store"]
    /\ UNCHANGED <<_model, load_frame>>

\* The loader raises; the exception leaves the getter.
LoaderRaises(w) ==
    /\ workers[w].pc = "load"
    /\ loads' = [loads EXCEPT ![workers[w].service] = @ + 1]
    /\ workers' = [workers EXCEPT ![w].pc = "raised"]
    /\ UNCHANGED <<_model, load_frame>>

\* `cls._model = ...`: the instance is stored in the class attribute.
StoreCache(w) ==
    /\ workers[w].pc = "store"
    /\ _model' = [_model EXCEPT ![workers[w].service] = workers[w].made]
    /\ workers' = [workers EXCEPT ![w].pc = "return"]
    /\ UNCHANGED <<loads, load_frame>>

\* `return cls._model`
ReturnCache(w) ==
    /\ workers[w].pc = "return"
    /\ workers' = [workers EXCEPT ![w].got = _model[workers[w].service], ![w].pc = "returned"]
    /\ UNCHANGED <<_model, loads, load_frame>>

NextLoad ==
    \E w \in Callers :
        \/ CheckCache(w) \/ RunLoader(w) \/ LoaderRaises(w) \/ StoreCache(w)
        \/ ReturnCache(w)

SpecLoad == InitLoad /\ [][NextLoad]_vars

\* ============================================================== claims
\* --------------------------------------------- readings of the run state
Terminal == {"ok", "failed"}

\* The run has ended: the generator returned, or an exception left it.
Ended == {"done", "error_end", "raised"}

\* Positions past the await of gather on its normal path.
PastGather == {"y80", "y90", "y95", "txt_written", "srt_written", "ycompleted", "done",
               "raised"}

\* Positions where alignment is about to run or has run.
AlignPositions == PastGather \ {"y80"}

\* Positions where alignment has run.
PastAlign == AlignPositions \ {"y90"}

\* Positions past the DualInference stage, on either exit.
LeftDualInference == PastGather \cup {"yerr", "error_end"}

HasStatus(status) == \E i \in 1..Len(events) : events[i].status = status

LastStatus == IF events = <<>> THEN "none" ELSE events[Len(events)].status

\* The stage of section 4.4 the run is in (7 is the Error exit).
StageRank ==
    CASE pc \in {"start", "y20"} -> 1
      [] pc \in {"y40", "gather", "y80"} -> 2
      [] pc = "y90" -> 3
      [] pc \in {"y95", "txt_written"} -> 4
      [] pc = "srt_written" -> 5
      [] pc \in {"ycompleted", "done"} -> 6
      [] OTHER -> 7

ProgressValues == <<20, 40, 80, 90, 95, 100>>

\* C1: when the diarization task has failed and the transcription task has
\* succeeded, the run never reports an error: past the join it holds an empty
\* speaker-segment list, every aligned segment is attributed to "Speaker 1",
\* and a run that ends without a write failure ends with a completed result.
C1_DegradesOnDiarizationFailure ==
    (diarization_task = "failed" /\ transcription_task = "ok") =>
        /\ pc \notin {"yerr", "error_end"}
        /\ ~HasStatus("error")
        /\ pc \in PastGather => speaker_segments = <<>>
        /\ pc \in PastAlign =>
               \A i \in 1..Len(aligned_segments) : aligned_segments[i].speaker = "Speaker 1"
        /\ pc = "done" => result.success /\ LastStatus = "completed"

\* C2: once the transcription task has failed, the run aborts: the orchestrator
\* is at the join or on the error exit and the error exit is open to it, its
\* last event on that exit is the error event, alignment and formatting never
\* start, no artifact is written and no completed result is produced.
C2_AbortsOnTranscriptionFailure ==
    transcription_task = "failed" =>
        /\ pc \in {"gather", "yerr", "error_end"}
        /\ pc = "gather" => ENABLED GatherRaises /\ ~ENABLED GatherReturns
        /\ pc \in {"yerr", "error_end"} => LastStatus = "error"
        /\ aligned_segments = <<>>
        /\ files = NoFiles
        /\ result = NoResult
        /\ ~HasStatus("completed")

C2_Witness ==
    /\ transcription_task = "failed"
    /\ diarization_task = "ok"
    /\ d_result # <<>>
    /\ pc = "error_end"

\* C3: the orchestrator does not leave the DualInference stage (the 80% event,
\* the error event, the end of the run) while either upstream task is still
\* running.
C3_JoinNotRace ==
    pc \in LeftDualInference =>
        transcription_task \in Terminal /\ diarization_task \in Terminal

\* C4: alignment is about to run or has run only when both upstream tasks have
\* reached a terminal state, and it runs on exactly what the two tasks
\* returned.
C4_AlignAfterBothTerminal ==
    pc \in AlignPositions =>
        /\ transcription_task \in Terminal
        /\ diarization_task \in Terminal
        /\ word_timestamps = t_result
        /\ speaker_segments = d_result

C4_Witness ==
    /\ pc = "y95"
    /\ Len(aligned_segments) = 2
    /\ Cardinality(speakers) = 2

\* C5 (events): the events yielded so far carry the progress values 20, 40, 80,
\* 90, 95, 100 in this order, every event but the last is a processing event,
\* and so a completed (or error) event is the last one.
C5_Events ==
    /\ Len(events) <= Len(ProgressValues)
    /\ \A i \in 1..Len(events) :
           /\ i < Len(events) => events[i].status = "processing"
           /\ events[i].status \in {"processing", "completed", "error"}
           /\ events[i].status # "error" => events[i].progress = ProgressValues[i]
           /\ events[i].status = "completed" <=> (events[i].status # "error" /\ i = 6)
    /\ pc = "done" => LastStatus = "completed"

\* C5 (stages): a step of the run stays in its stage, moves to the next stage
\* of Start, DualInference, Align, Format, Assemble, Done, or takes the error
\* exit, which it never leaves.
C5_StageStep ==
    \/ StageRank' = StageRank
    \/ StageRank < 6 /\ StageRank' = StageRank + 1
    \/ StageRank \in {2, 4} /\ StageRank' = 7

\* C5: a run visits Start, DualInference, Align, Format, Assemble, Done in this
\* order, none repeated or revisited; its progress events carry the strictly
\* increasing values 20, 40, 80, 90, 95, 100 and the completed event is last.
C5_StagesInOrder == []C5_Events /\ [][C5_StageStep]_vars

C5_Witness ==
    /\ pc = "done"
    /\ Len(events) = 6
    /\ events[6].status = "completed"

\* C6: after a failed artifact write the run has reported no completed result
\* and neither artifact of the request is left in the output directory.
C6_NoArtifactAfterWriteFailure ==
    pc = "raised" =>
        /\ result = NoResult
        /\ ~HasStatus("completed")
        /\ txt_path \notin DOMAIN files
        /\ srt_path \notin DOMAIN files

\* --------------------------------------------------- the speaker assigner
\* The center of word w lies in segment s, bounds included (times doubled).
CenterIn(w, s) == 2 * s.start <= w.start + w.end /\ w.start + w.end <= 2 * s.end

\* Twice min(|t - start|, |t - end|) for the center t of word w.
BoundaryDistance(w, s) ==
    LET a == IF w.start + w.end >= 2 * s.start THEN w.start + w.end - 2 * s.start
             ELSE 2 * s.start - (w.start + w.end)
        b == IF w.start + w.end >= 2 * s.end THEN w.start + w.end - 2 * s.end
             ELSE 2 * s.end - (w.start + w.end)
    IN  IF a < b THEN a ELSE b

C7_SameWords ==
    apc = "returned" =>
        /\ Len(words_with_speakers) = Len(words)
        /\ \A i \in 1..Len(words) :
               /\ words_with_speakers[i].word = words[i].word
               /\ words_with_speakers[i].start = words[i].start
               /\ words_with_speakers[i].end = words[i].end

\* C7: AssignSpeakers returns a list as long as the word list whose i-th
\* element carries the i-th word's text, start and end, and it leaves both
\* input lists as they were.
C7_AssignPreservesWords ==
    []C7_SameWords /\ [][words' = words /\ segs' = segs]_vars

C7_Witness ==
    /\ apc = "returned"
    /\ Len(words) = 2
    /\ words[1].word # words[2].word
    /\ words[1].start > words[2].start
    /\ segs # <<>>

\* C8: with an empty speaker-segment list the call returns (it is enabled for
\* every word list) and every word of the result is labelled "Speaker 1".
C8_EmptySegmentsFallback ==
    segs = <<>> =>
        /\ apc = "call" => ENABLED AssignSpeakers
        /\ apc = "returned" =>
               /\ Len(words_with_speakers) = Len(words)
               /\ \A i \in 1..Len(words) : words_with_speakers[i].speaker = "Speaker 1"

C8_Witness ==
    /\ apc = "returned"
    /\ segs = <<>>
    /\ Len(words) = 3

\* C9: a word whose center lies inside at least one segment (bounds included)
\* gets the speaker of the first such segment in list order.
C9_FirstContainingSegment ==
    apc = "returned" =>
        \A i \in 1..Len(words) : \A k \in 1..Len(segs) :
            (CenterIn(words[i], segs[k]) /\ \A j \in 1..(k - 1) : ~CenterIn(words[i], segs[j]))
                => words_with_speakers[i].speaker = segs[k].speaker

\* Two overlapping segments of different speakers hold the word's center, the
\* first in the list starting later than the second, the center on its end.
C9_Witness ==
    /\ apc = "returned"
    /\ Len(words) = 1
    /\ Len(segs) = 2
    /\ CenterIn(words[1], segs[1])
    /\ CenterIn(words[1], segs[2])
    /\ segs[1].speaker # segs[2].speaker
    /\ segs[1].start > segs[2].start
    /\ words[1].start + words[1].end = 2 * segs[1].start

\* C10: a word whose center lies in no segment of a non-empty list gets the
\* speaker of the segment with the least boundary distance, the earliest in
\* list order among those that attain it.
C10_NearestBoundary ==
    apc = "returned" =>
        \A i \in 1..Len(words) :
            (segs # <<>> /\ \A k \in 1..Len(segs) : ~CenterIn(words[i], segs[k])) =>
                \E k \in 1..Len(segs) :
                    /\ \A j \in 1..Len(segs) :
                           BoundaryDistance(words[i], segs[k]) <= BoundaryDistance(words[i], segs[j])
                    /\ \A j \in 1..(k - 1) :
                           BoundaryDistance(words[i], segs[j]) > BoundaryDistance(words[i], segs[k])
                    /\ words_with_speakers[i].speaker = segs[k].speaker

\* Two segments of different speakers at the same distance from a center that
\* neither holds.
C10_Witness ==
    /\ apc = "returned"
    /\ Len(words) = 1
    /\ Len(segs) = 2
    /\ ~CenterIn(words[1], segs[1])
    /\ ~CenterIn(words[1], segs[2])
    /\ BoundaryDistance(words[1], segs[1]) = BoundaryDistance(words[1], segs[2])
    /\ segs[1].speaker # segs[2].speaker
    /\ words_with_speakers[1].speaker = segs[1].speaker

\* ------------------------------------------ readings of a reconstruction
Reconstructed == apc = "reconstructed"

\* Word i (i > 1) differs in speaker from the word before it, or begins more
\* than the threshold after that word ends.
SplitAt(wws, i) ==
    \/ wws[i].speaker # wws[i - 1].speaker
    \/ wws[i].start - wws[i - 1].end > PAUSE_THRESHOLD

\* The indices of the words that begin a segment.
SegmentStarts(wws) ==
    {i \in 1..Len(wws) : i = 1 \/ SplitAt(wws, i)}

\* The last word of the segment that word i begins.
SegmentLast(wws, i) ==
    CHOOSE j \in i..Len(wws) :
        /\ \A m \in (i + 1)..j : m \notin SegmentStarts(wws)
        /\ j = Len(wws) \/ (j + 1) \in SegmentStarts(wws)

\* The position among the segments of the segment that word i begins.
SegmentRank(wws, i) == Cardinality({j \in SegmentStarts(wws) : j <= i})

RECURSIVE JoinSpaces(_)
JoinSpaces(texts) ==
    IF texts = <<>> THEN ""
    ELSE IF Len(texts) = 1 THEN texts[1]
    ELSE texts[1] \o " " \o JoinSpaces(Tail(texts))

\* C11: the reconstructor begins a new segment at a word exactly when the
\* word's speaker differs from the open segment's or the word begins strictly
\* more than the pause threshold after the previous word ends; otherwise the
\* open segment is extended and takes the word's end as its end.
C11_SplitExactlyOnChangeOrPause ==
    Reconstructed =>
        /\ Len(aligned_segments) = Cardinality(SegmentStarts(words_with_speakers))
        /\ \A i \in SegmentStarts(words_with_speakers) :
               LET seg == aligned_segments[SegmentRank(words_with_speakers, i)]
               IN  /\ seg.start = words_with_speakers[i].start
                   /\ seg.speaker = words_with_speakers[i].speaker
                   /\ seg.end =
                         words_with_speakers[SegmentLast(words_with_speakers, i)].end

\* Three words of one speaker: one pair a pause of exactly the threshold
\* apart and kept together, one pair further apart and split.
C11_Witness ==
    /\ Reconstructed
    /\ Len(words_with_speakers) = 3
    /\ \A i \in 1..3 : words_with_speakers[i].speaker = words_with_speakers[1].speaker
    /\ \E i \in 2..3 :
           words_with_speakers[i].start - words_with_speakers[i - 1].end = PAUSE_THRESHOLD
    /\ Len(aligned_segments) = 2

\* C12: the texts of the output segments, joined in order by single spaces,
\* are the input word texts joined by single spaces; the empty input gives
\* the empty output and a one-word input gives exactly one segment.
C12_TextPreserved ==
    Reconstructed =>
        /\ JoinSpaces([k \in 1..Len(aligned_segments) |-> aligned_segments[k].text])
             = JoinSpaces([i \in 1..Len(words_with_speakers) |->
                              words_with_speakers[i].word])
        /\ words_with_speakers = <<>> => aligned_segments = <<>>
        /\ Len(words_with_speakers) = 1 => Len(aligned_segments) = 1

C12_Witness ==
    /\ Reconstructed
    /\ Len(words_with_speakers) = 3
    /\ Len(aligned_segments) = 2
    /\ aligned_segments[1].text = "w1 w2"
    /\ aligned_segments[2].text = "w3"

\* The upstream contract on words: start <= end and non-decreasing start.
UpstreamContract(wws) ==
    /\ \A i \in 1..Len(wws) : wws[i].start <= wws[i].end
    /\ NonDecreasingStart(wws)

\* C13: for words with start <= end in non-decreasing start order, the
\* output segments have non-decreasing start and each has end >= start.
C13_MonotonicSegments ==
    (Reconstructed /\ UpstreamContract(words_with_speakers)) =>
        /\ NonDecreasingStart(aligned_segments)
        /\ \A k \in 1..Len(aligned_segments) :
               aligned_segments[k].end >= aligned_segments[k].start

C13_Witness ==
    /\ Reconstructed
    /\ UpstreamContract(words_with_speakers)
    /\ Len(aligned_segments) = 2
    /\ aligned_segments[1].start < aligned_segments[1].end
    /\ aligned_segments[1].start < aligned_segments[2].start

\* C14: no two adjacent output segments have the same speaker and a gap
\* (next start minus previous end) of the pause threshold or less.
C14_AdjacentSegmentsNotMergeable ==
    Reconstructed =>
        \A k \in 1..(Len(aligned_segments) - 1) :
            ~ /\ aligned_segments[k].speaker = aligned_segments[k + 1].speaker
              /\ aligned_segments[k + 1].start - aligned_segments[k].end
                   <= PAUSE_THRESHOLD

\* Adjacent segments of one speaker, and a same-speaker pair of words a pause
\* of exactly the threshold apart.
C14_Witness ==
    /\ Reconstructed
    /\ \E k \in 1..(Len(aligned_segments) - 1) :
           aligned_segments[k].speaker = aligned_segments[k + 1].speaker
    /\ \E i \in 2..Len(words_with_speakers) :
           /\ words_with_speakers[i].speaker = words_with_speakers[i - 1].speaker
           /\ words_with_speakers[i].start - words_with_speakers[i - 1].end
                = PAUSE_THRESHOLD

\* ------------------------------------------------ readings of a text
\* The positions of the line feeds of a text.
LineFeeds(text) == {i \in 1..Len(text) : SubSeq(text, i, i) = "\n"}

\* The text cut at its line feeds, as str.split does: one more piece than
\* there are line feeds.
SplitLines(text) ==
    LET lf == LineFeeds(text)
        Nth(k) == CHOOSE i \in lf : Cardinality({j \in lf : j < i}) = k - 1
        From(k) == IF k = 1 THEN 1 ELSE Nth(k - 1) + 1
        To(k) == IF k = Cardinality(lf) + 1 THEN Len(text) ELSE Nth(k) - 1
    IN  [k \in 1..(Cardinality(lf) + 1) |-> SubSeq(text, From(k), To(k))]

EndsWith(text, suffix) ==
    /\ Len(suffix) <= Len(text)
    /\ SubSeq(text, Len(text) - Len(suffix) + 1, Len(text)) = suffix

Formatted == apc = "srt_generated"

\* C15: the plain-text output has one line per segment and the subtitle
\* output one entry per segment, in segment order; subtitle entries are
\* numbered 1..n, each an index line, a timing line, a "[speaker] text" line
\* and a blank line; the empty list gives empty text in both formats.
C15_OneLineAndOneEntryPerSegment ==
    Formatted =>
        LET n == Len(aligned_segments)
            txt == SplitLines(files[txt_path])
            srt == SplitLines(files[srt_path])
        IN  IF n = 0
            THEN files[txt_path] = "" /\ files[srt_path] = ""
            ELSE /\ Len(txt) = n
                 /\ \A i \in 1..n :
                        EndsWith(txt[i], "] " \o aligned_segments[i].speaker \o ": "
                                            \o aligned_segments[i].text)
                 /\ Len(srt) = 4 * n
                 /\ \A i \in 1..n :
                        /\ srt[4 * i - 3] = ToString(i)
                        /\ srt[4 * i - 2] =
                               format_timestamp_srt(aligned_segments[i].start) \o " --> "
                                   \o format_timestamp_srt(aligned_segments[i].end)
                        /\ srt[4 * i - 1] = "[" \o aligned_segments[i].speaker \o "] "
                                                \o aligned_segments[i].text
                        /\ srt[4 * i] = ""

\* Three segments with different texts and speakers have been formatted.
C15_Witness ==
    /\ Formatted
    /\ Len(aligned_segments) = 3
    /\ aligned_segments[1].speaker # aligned_segments[2].speaker
    /\ Len(SplitLines(files[srt_path])) = 12
    /\ Len(SplitLines(files[txt_path])) = 3

\* C16: the plain timestamp is HH:MM:SS with hours = floor(s/3600), minutes =
\* floor((s mod 3600)/60), seconds = floor(s mod 60), and the subtitle
\* timestamp is the same followed by ",mmm" with mmm the whole milliseconds
\* of the fraction, as 3661.234 gives "01:01:01" and "01:01:01,234"; minutes
\* and seconds are in 0..59 and milliseconds in 0..999.
C16_TimestampDecomposition ==
    apc = "stamped" =>
        LET hours == seconds.whole \div 3600
            minutes == (seconds.whole % 3600) \div 60
            secs == seconds.whole % 60
            hms == Pad2(hours) \o ":" \o Pad2(minutes) \o ":" \o Pad2(secs)
        IN  /\ minutes \in 0..59 /\ secs \in 0..59
            /\ timestamp_txt = hms
            /\ timestamp_srt = hms \o "," \o Pad3(seconds.frac_ms)
            /\ (seconds.whole = 3661 /\ seconds.frac_ms = 234) =>
                   (timestamp_txt = "01:01:01" /\ timestamp_srt = "01:01:01,234")

\* Transcription has returned an empty word list and diarization has returned.
EmptyTranscription ==
    /\ transcription_task = "ok"
    /\ t_result = <<>>
    /\ diarization_task = "ok"

HasEmptyFile(path) == path \in DOMAIN files /\ files[path] = ""

\* C17: when transcription returns an empty word list the run takes no error
\* exit: whatever the speaker segments, alignment gives the empty segment
\* list, both artifacts are written with empty content, and the run ends
\* with a completed result.
C17_EmptyWordListCompletes ==
    EmptyTranscription =>
        /\ pc \notin {"yerr", "error_end"}
        /\ ~HasStatus("error")
        /\ pc \in PastAlign => aligned_segments = <<>>
        /\ pc \in {"txt_written", "srt_written", "ycompleted", "done"} =>
               HasEmptyFile(txt_path)
        /\ pc \in {"srt_written", "ycompleted", "done"} => HasEmptyFile(srt_path)
        /\ pc \in {"ycompleted", "done"} =>
               /\ LastStatus = "completed"
               /\ result.success
               /\ result.segments = <<>>
               /\ events[Len(events)].result = result

\* A run with no words and two speaker turns has ended with its result.
C17_Witness ==
    /\ EmptyTranscription
    /\ Len(d_result) = 2
    /\ pc = "done"
    /\ result.success
    /\ HasEmptyFile(txt_path) /\ HasEmptyFile(srt_path)

Completed == pc \in {"ycompleted", "done"}

\* C18: in a completed result the speaker count is the number of distinct
\* speaker labels of the result's segments (0 when there are none), and the
\* result's segments are the list written to the two artifacts.
C18_SpeakerCountAndWrittenSegments ==
    Completed =>
        /\ result.num_speakers =
               Cardinality({result.segments[i].speaker : i \in 1..Len(result.segments)})
        /\ result.segments = <<>> => result.num_speakers = 0
        /\ result.segments = aligned_segments
        /\ files[txt_path] = generate_txt(result.segments)
        /\ files[srt_path] = generate_srt(result.segments)

\* A completed result of three segments of two speakers.
C18_Witness ==
    /\ Completed
    /\ Len(result.segments) = 3
    /\ result.num_speakers = 2
    /\ result.segments[1].speaker = result.segments[3].speaker

\* The upload passes validation and was converted to a wav file.
ValidConvertedUpload ==
    /\ validate_file(filename_or_default(upload.filename), upload.size)
    /\ wav_path # None

\* C19: for an upload that passes validation and conversion (both engines
\* being able to succeed), the /api/transcribe handler answers with the
\* orchestrator's transcription response and not with an HTTP 500 error.
C19_ValidUploadIsTranscribed ==
    (rpc = "responded" /\ ValidConvertedUpload) =>
        /\ response.status_code # 500
        /\ response.status_code = 200

\* The artifact paths of a run.
ArtifactPaths(id) == {txt_path_of(runs[id].wav_path), srt_path_of(runs[id].wav_path)}

\* The segments that follow from what the run's own tasks returned.
OwnSegments(id) == align_precision(runs[id].t_result, runs[id].d_result)

\* C20: two concurrent runs on files with different request ids write to
\* disjoint artifact paths, and under every interleaving the segments, the
\* artifacts and the result of each run are those derived from that run's own
\* words and speaker segments.
C20_ConcurrentRunsIndependent ==
    /\ \A id \in DOMAIN runs : \A other \in DOMAIN runs \ {id} :
           ArtifactPaths(id) \cap ArtifactPaths(other) = {}
    /\ \A id \in DOMAIN runs :
           LET run == runs[id]
           IN  /\ run.pc \in PastAlign \ {"raised"} =>
                      run.aligned_segments = OwnSegments(id)
               /\ run.pc \in {"txt_written", "srt_written", "ycompleted", "done"} =>
                      files[txt_path_of(run.wav_path)] = generate_txt(OwnSegments(id))
               /\ run.pc \in {"srt_written", "ycompleted", "done"} =>
                      files[srt_path_of(run.wav_path)] = generate_srt(OwnSegments(id))
               /\ run.pc \in {"ycompleted", "done"} =>
                      /\ run.result.segments = OwnSegments(id)
                      /\ run.result.download_txt =
                             "/api/download/" \o txt_path_of(run.wav_path)
                      /\ run.result.download_srt =
                             "/api/download/" \o srt_path_of(run.wav_path)

\* Both runs have ended with a result, on different words, the second to
\* write having written after the first.
C20_Witness ==
    /\ \A id \in DOMAIN runs : runs[id].pc = "done"
    /\ \E id \in DOMAIN runs : \E other \in DOMAIN runs :
           /\ Len(runs[id].result.segments) = 1
           /\ Len(runs[other].result.segments) = 2
    /\ DOMAIN files = UNION {ArtifactPaths(id) : id \in DOMAIN runs}
    /\ Cardinality(DOMAIN files) = 4

\* The terminal status events among the events yielded so far.
TerminalEvents == {i \in 1..Len(events) : events[i].status \in {"completed", "error"}}

\* C21: every run that has ended has yielded exactly one terminal status
\* event, completed or error, and it is the last event, whichever stage
\* failed (an upstream task or an artifact write); no run ends with
\* processing events only.
C21_EndsWithOneTerminalEvent ==
    pc \in Ended =>
        /\ Cardinality(TerminalEvents) = 1
        /\ LastStatus \in {"completed", "error"}

\* C22: the cached handle is loaded at most once: when several worker
\* threads call get_model / get_pipeline while nothing is cached, the loader
\* of a service is executed only once and every caller it returns to
\* receives the same instance.
C22_LoadedAtMostOnce ==
    \A service \in Services :
        /\ loads[service] <= 1
        /\ \A w \in DOMAIN workers : \A v \in DOMAIN workers :
               (workers[w].service = service /\ workers[v].service = service
                   /\ workers[w].pc = "returned" /\ workers[v].pc = "returned")
               => workers[w].got = workers[v].got

\* The labels of the caller's speaker segments.
SegmentLabels == {segs[k].speaker : k \in 1..Len(segs)}

\* C23: with a non-empty speaker-segment list every word gets the label of
\* some segment of the list; neither "Unknown" nor a missing speaker occurs
\* among the labelled words or among the reconstructed segments.
C23_LabelsComeFromSegments ==
    (apc = "aligned" /\ segs # <<>>) =>
        /\ \A i \in 1..Len(words_with_speakers) :
               /\ words_with_speakers[i].speaker \in SegmentLabels
               /\ words_with_speakers[i].speaker \notin {UNKNOWN, NoSpeaker}
        /\ \A k \in 1..Len(aligned_segments) :
               /\ aligned_segments[k].speaker \in SegmentLabels
               /\ aligned_segments[k].speaker \notin {UNKNOWN, NoSpeaker}

\* Two words whose centers lie in no segment, one before and one after the
\* only segment, have been labelled and rebuilt into segments.
C23_Witness ==
    /\ apc = "aligned"
    /\ Len(segs) = 1
    /\ Len(words) = 2
    /\ words[1].start + words[1].end < 2 * segs[1].start
    /\ words[2].start + words[2].end > 2 * segs[1].end
    /\ aligned_segments # <<>>
====
